---- MODULE Spec2Model ----
(***************************************************************************)
(* arubafi: the inventory classification and indexing of AirWave           *)
(* (src/arubafi/airwave.py).  One AirWave instance holds the raw inventory *)
(* and seven index dicts; _create_inventory_dbs rebuilds the dicts from    *)
(* the raw inventory in one pass, calling _dns_ptr_check for controllers   *)
(* that carry no fqdn key.                                                 *)
(* The queries of AirWave, the OnlyOneInstance metaclass and the request   *)
(* helpers of MMClient (src/arubafi/mmclient.py) follow, each under a      *)
(* specification of its own: Spec, SpecQ, SpecU, SpecI, SpecM.             *)
(***************************************************************************)
EXTENDS Integers, Sequences, FiniteSets, TLC

\* ------------------------------------------------------------------------
\* Bounds
\* ------------------------------------------------------------------------
\* longest <ap> list of the fetched inventory
MaxItems == 2

\* ------------------------------------------------------------------------
\* Values of the raw records
\* ------------------------------------------------------------------------
\* a key that the raw record (a dict) does not hold
Absent == "absent"
\* python None: what item.get(key) gives for a missing key, and what the
\* parser gives for an element that is present but empty
None == "None"

Ips == {"10.0.0.5", "10.0.0.6"}
Names == {"ap1", "ap2"}
Fqdns == {"ctrl1.example.com"}
ControllerIds == {"1", "2"}
Categories == {"controller", "thin_ap", "switch"}
VirtualModel == "Aruba Instant Virtual Controller"
ModelTexts == {VirtualModel, "7010"}

\* what socket.gethostbyaddr can do for an address: return a host name,
\* return the address itself, raise socket.herror, raise another error
DnsAnswers == {"name", "echo", "herror", "gaierror"}

\* the PTR name of an address, when the resolver has one
PtrName(addr) == IF addr = "10.0.0.5" THEN "ctrl5.example.com" ELSE "ctrl6.example.com"

\* "controller" in device_category
HasController(cat) == cat = "controller"
\* "thin_ap" in device_category
HasThinAp(cat) == cat = "thin_ap"
\* "Instant Virtual Controller" in model['#text']
HasVirtualModel(m) == m = VirtualModel

\* the fields a record is given when the branch it takes never reads them
DefaultItem ==
  [id |-> "id", lan_ip |-> "10.0.0.5", name |-> "ap1", device_category |-> "thin_ap",
   controller_id |-> Absent, fqdn |-> Absent, model |-> "7010"]

\* One record for every path through the loop body.  A field that the path
\* of the record never reads keeps its default; a field of which the path
\* reads only the presence, never the value, is absent or "ap1".
Templates ==
  {[DefaultItem EXCEPT !.id = Absent]}
  \cup {[DefaultItem EXCEPT !.device_category = Absent]}
  \cup {[DefaultItem EXCEPT !.device_category = "controller", !.model = Absent]}
  \cup {[DefaultItem EXCEPT !.device_category = "controller", !.model = VirtualModel,
                            !.fqdn = f] : f \in Fqdns \cup {None, Absent}}
  \cup {[DefaultItem EXCEPT !.device_category = "controller", !.fqdn = f] :
          f \in Fqdns \cup {None}}
  \cup {[DefaultItem EXCEPT !.device_category = "controller", !.lan_ip = ip,
                            !.name = n] : ip \in Ips \cup {Absent}, n \in {"ap1", Absent}}
  \cup {[DefaultItem EXCEPT !.controller_id = k, !.name = n] :
          k \in ControllerIds \cup {Absent}, n \in Names \cup {Absent}}
  \cup {[DefaultItem EXCEPT !.device_category = "switch", !.controller_id = k,
                            !.name = n] : k \in {"1", Absent}, n \in {"ap1", Absent}}

\* the @id of the record at position i: ids are unique in the inventory
IdAt(i) == ToString(i)

\* a list of templates with the ids of its positions filled in
WithIds(t) ==
  [i \in DOMAIN t |-> [t[i] EXCEPT !.id = IF @ = Absent THEN Absent ELSE IdAt(i)]]

\* the <ap> lists of n records that a fetch can return
Inventories(n) == { WithIds(t) : t \in [1..n -> Templates] }

\* ------------------------------------------------------------------------
\* Python dicts and lists
\* ------------------------------------------------------------------------
\* the elements of a list
Range(seq) == { seq[j] : j \in DOMAIN seq }
EmptyDict == [k \in {} |-> None]
\* d[k] = v
Put(d, k, v) == (k :> v) @@ d
\* item.get(key): None for a missing key
Get(v) == IF v = Absent THEN None ELSE v
\* truth value of a string or None
Truthy(v) == v \notin {None, ""}

\* ------------------------------------------------------------------------
\* _dns_ptr_check
\* ------------------------------------------------------------------------
\* socket.gethostbyaddr(addr): the host name it returns, or the error raised
GetHostByAddr(addr, resolver) ==
  CASE resolver[addr] = "name" -> [error |-> "none", host |-> PtrName(addr)]
    [] resolver[addr] = "echo" -> [error |-> "none", host |-> addr]
    [] resolver[addr] = "herror" -> [error |-> "herror", host |-> None]
    [] OTHER -> [error |-> "gaierror", host |-> None]

\* first element of the returned tuple, or the exception that escapes
DnsPtrCheck(addr, resolver) ==
  LET get_response == GetHostByAddr(addr, resolver) IN
  IF get_response.error = "herror" THEN [error |-> "none", fqdn |-> None]
  ELSE IF get_response.error # "none" THEN [error |-> get_response.error, fqdn |-> None]
  ELSE IF get_response.host = addr THEN [error |-> "none", fqdn |-> None]
  ELSE [error |-> "none", fqdn |-> get_response.host]

\* ------------------------------------------------------------------------
\* _create_inventory_dbs
\* ------------------------------------------------------------------------
\* the seven dicts as the method creates them, with the trace of the run:
\* error   the exception that left the method ("none": it returned)
\* lookups the ids of the records _dns_ptr_check was called for
\* placed  <<id, dict>> for every dict write of a role branch, and
\*         <<id, "unclassified">> for a record that no branch took
EmptyDbs ==
  [controllers_db |-> EmptyDict, iapvc_db |-> EmptyDict,
   contrlollerid_to_ap_db |-> EmptyDict, apname_to_controllerid_db |-> EmptyDict,
   controllerless_ap_db |-> EmptyDict, no_ptr_controllers_db |-> EmptyDict,
   all_items_db |-> EmptyDict,
   error |-> "none", lookups |-> {}, placed |-> {}]

Raise(st, exc) == [st EXCEPT !.error = exc]

ItemData(item) ==
  [lan_ip |-> Get(item.lan_ip), name |-> Get(item.name),
   device_category |-> Get(item.device_category),
   controller_id |-> Get(item.controller_id), fqdn |-> Get(item.fqdn),
   model |-> Get(item.model)]

\* the body of the first branch: a "normal" controller
ControllerBranch(st, item, resolver) ==
  IF item.fqdn # Absent
  THEN [st EXCEPT !.controllers_db = Put(@, item.id, item.fqdn),
                  !.placed = @ \cup {<<item.id, "controllers_db">>}]
  ELSE IF item.lan_ip = Absent THEN Raise(st, "KeyError")
  ELSE LET controller_ip == item.lan_ip
           controller_fqdn == DnsPtrCheck(controller_ip, resolver)
           st1 == [st EXCEPT !.lookups = @ \cup {item.id}]
       IN IF controller_fqdn.error # "none" THEN Raise(st1, controller_fqdn.error)
          ELSE IF Truthy(controller_fqdn.fqdn)
          THEN [st1 EXCEPT !.controllers_db = Put(@, item.id, controller_fqdn.fqdn),
                           !.placed = @ \cup {<<item.id, "controllers_db">>}]
          ELSE IF item.name = Absent THEN Raise(st1, "KeyError")
          ELSE [st1 EXCEPT !.no_ptr_controllers_db = Put(@, controller_ip, item.name),
                           !.placed = @ \cup {<<item.id, "no_ptr_controllers_db">>}]

\* the body of the second branch: a virtual IAP controller
VirtualControllerBranch(st, item) ==
  IF item.fqdn = Absent THEN Raise(st, "KeyError")
  ELSE [st EXCEPT !.iapvc_db = Put(@, item.id, item.fqdn),
                  !.placed = @ \cup {<<item.id, "iapvc_db">>}]

\* the third branch with setdefault in place of the assignment to the
\* name dict: the first controller of a name is kept
ManagedApBranchKeepFirst(st, item) ==
  LET k == item.controller_id
      name == ItemData(item).name
      aps == IF k \in DOMAIN st.contrlollerid_to_ap_db
             THEN st.contrlollerid_to_ap_db[k] ELSE <<>>
  IN [st EXCEPT !.contrlollerid_to_ap_db = Put(@, k, Append(aps, name)),
                !.apname_to_controllerid_db = IF name \in DOMAIN @ THEN @ ELSE Put(@, name, k),
                !.placed = @ \cup {<<item.id, "contrlollerid_to_ap_db">>}]

\* the body of the third branch: an AP managed by a controller
ManagedApBranch(st, item) ==
  LET k == item.controller_id
      name == ItemData(item).name
      aps == IF k \in DOMAIN st.contrlollerid_to_ap_db
             THEN st.contrlollerid_to_ap_db[k] ELSE <<>>
  IN [st EXCEPT !.contrlollerid_to_ap_db = Put(@, k, Append(aps, name)),
                !.apname_to_controllerid_db = Put(@, name, k),
                !.placed = @ \cup {<<item.id, "contrlollerid_to_ap_db">>}]

\* the body of the fourth branch: an AP without controller
ControllerlessApBranch(st, item) ==
  IF item.name = Absent THEN Raise(st, "KeyError")
  ELSE [st EXCEPT !.controllerless_ap_db = Put(@, item.id, item.name),
                  !.placed = @ \cup {<<item.id, "controllerless_ap_db">>}]

\* the if/elif chain of the loop body
Classify(st, item, resolver) ==
  IF item.device_category = Absent THEN Raise(st, "KeyError")
  ELSE IF HasController(item.device_category)
  THEN IF item.model = Absent THEN Raise(st, "KeyError")
       ELSE IF ~HasVirtualModel(item.model) THEN ControllerBranch(st, item, resolver)
       ELSE VirtualControllerBranch(st, item)
  ELSE IF HasThinAp(item.device_category) /\ item.controller_id # Absent
  THEN ManagedApBranch(st, item)
  ELSE IF item.controller_id = Absent /\ ~HasController(ItemData(item).device_category)
  THEN ControllerlessApBranch(st, item)
  ELSE [st EXCEPT !.placed = @ \cup {<<item.id, "unclassified">>}]

\* one iteration of the loop
ProcessItem(st, item, resolver) ==
  IF item.id = Absent THEN Raise(st, "KeyError")
  ELSE Classify([st EXCEPT !.all_items_db = Put(@, item.id, ItemData(item))],
                item, resolver)

\* the loop over the <ap> list from position i on; an exception ends it
RECURSIVE RunLoop(_, _, _, _)
RunLoop(st, inv, i, resolver) ==
  IF i > Len(inv) \/ st.error # "none" THEN st
  ELSE RunLoop(ProcessItem(st, inv[i], resolver), inv, i + 1, resolver)

\* a head of the method that keeps the AP lists the instance held before
ResetDbsKeepLists(old) ==
  [EmptyDbs EXCEPT !.contrlollerid_to_ap_db = old.contrlollerid_to_ap_db]

\* the seven dicts are created anew at the head of the method, whatever the
\* instance held before
ResetDbs(old) == EmptyDbs

\* the whole method on the inventory inv, on an instance that held the dicts old
CreateInventoryDbs(old, inv, resolver) == RunLoop(ResetDbs(old), inv, 1, resolver)

\* ------------------------------------------------------------------------
\* Inputs of the queries
\* ------------------------------------------------------------------------
\* the records of the inventories the queries are run on: controllers with
\* fqdn, with empty fqdn and without fqdn, managed APs of two controllers,
\* an AP without controller and a record without device_category
QueryTemplates ==
  {[DefaultItem EXCEPT !.device_category = Absent]}
  \cup {[DefaultItem EXCEPT !.device_category = "controller", !.fqdn = f] :
          f \in Fqdns \cup {None, Absent}}
  \cup {[DefaultItem EXCEPT !.controller_id = k, !.name = n] :
          k \in ControllerIds \cup {Absent}, n \in Names}

QueryInventories(n) == { WithIds(t) : t \in [1..n -> QueryTemplates] }

\* the lookups of the query runs find a name or raise socket.herror
QueryAnswers == {"name", "herror"}

\* AP names passed to the queries; "ap9" is the name of no record
ApNameArgs == {"ap1", "ap9"}

\* the ap_names arguments: is_list is isinstance(ap_names, list); the default
\* None and a set or tuple of names are no lists
ApNamesArgs ==
  { [is_list |-> TRUE, names |-> <<>>],
    [is_list |-> TRUE, names |-> <<"ap1">>],
    [is_list |-> TRUE, names |-> <<"ap9", "ap1", "ap2">>],
    [is_list |-> FALSE, names |-> <<>>],
    [is_list |-> FALSE, names |-> <<"ap1">>] }

\* client MAC addresses; the third is the MAC of no associated client
Macs == {"AA:00:00:00:00:01", "AA:00:00:00:00:02", "AA:00:00:00:00:03"}

\* the AP a client is associated with is managed by this controller
ClientControllerId(mac) ==
  IF mac = "AA:00:00:00:00:01" THEN "1" ELSE "2"

\* client_detail.xml holds a client with assoc_stat 'true' for the MAC
ClientAssociated(mac) == mac # "AA:00:00:00:00:03"

\* ------------------------------------------------------------------------
\* State
\* ------------------------------------------------------------------------
VARIABLES
  resolver,       \* what the reverse lookup of each address does
  has_inventory,  \* hasattr(self, '_inventory')
  inventory,      \* self._inventory["amp:amp_ap_list"]["ap"]
  has_dbs,        \* the seven dicts exist on the instance
  dbs,            \* the seven dicts, with the trace of the run that made them
  has_users_ap_info,  \* hasattr(self, 'users_ap_info')
  users_ap_info,  \* self.users_ap_info
  call,           \* the last public call: its name, argument and outcome
  instances,      \* OnlyOneInstance._instances
  access_token    \* MMClient._access_token

vars == <<resolver, has_inventory, inventory, has_dbs, dbs,
          has_users_ap_info, users_ap_info, call, instances, access_token>>

NoCall == [op |-> "none", arg |-> None, rebuilt |-> FALSE, raised |-> FALSE,
           result |-> None]

Init ==
  /\ resolver \in [Ips -> DnsAnswers]
  /\ has_inventory = FALSE
  /\ inventory = <<>>
  /\ has_dbs = FALSE
  /\ dbs = EmptyDbs
  /\ has_users_ap_info = FALSE
  /\ users_ap_info = EmptyDict
  /\ call = NoCall
  /\ instances = EmptyDict
  /\ access_token = ""

\* the instance as a value: raised is set once an exception is on its way
\* out of the call, rebuilt once _create_inventory_dbs ran on an instance
\* that had the dicts
Self ==
  [has_inventory |-> has_inventory, inventory |-> inventory,
   has_dbs |-> has_dbs, dbs |-> dbs,
   has_users_ap_info |-> has_users_ap_info, users_ap_info |-> users_ap_info,
   raised |-> FALSE, rebuilt |-> FALSE]

\* a _full_raw_airwave_inventory that fetches on every call
FullRawAirwaveInventoryAlways(s, fetched) ==
  [s EXCEPT !.has_inventory = TRUE, !.inventory = fetched]

\* _full_raw_airwave_inventory: fetched is what ap_list.xml holds now
FullRawAirwaveInventory(s, fetched) ==
  IF ~s.has_inventory
  THEN [s EXCEPT !.has_inventory = TRUE, !.inventory = fetched]
  ELSE s

\* _create_inventory_dbs on the instance s
RunCreateInventoryDbs(s, fetched) ==
  LET s1 == FullRawAirwaveInventory(s, fetched)
      st == CreateInventoryDbs(s.dbs, s1.inventory, resolver)
  IN [s1 EXCEPT !.has_dbs = TRUE, !.dbs = st,
                !.raised = st.error # "none",
                !.rebuilt = @ \/ s.has_dbs]

\* the instance after the call
Commit(s) ==
  /\ has_inventory' = s.has_inventory
  /\ inventory' = s.inventory
  /\ has_dbs' = s.has_dbs
  /\ dbs' = s.dbs
  /\ has_users_ap_info' = s.has_users_ap_info
  /\ users_ap_info' = s.users_ap_info
  /\ UNCHANGED <<resolver, instances, access_token>>

\* the record of a call that left the instance s
Called(op, arg, s, result) ==
  [op |-> op, arg |-> arg, rebuilt |-> s.rebuilt, raised |-> s.raised,
   result |-> IF s.raised THEN None ELSE result]

\* a direct call of _create_inventory_dbs: the first call fetches the
\* inventory, a later call uses the one the instance holds
Build ==
  /\ \E n \in 0..MaxItems :
     \E fetched \in (IF has_inventory THEN {inventory} ELSE Inventories(n)) :
       Commit(RunCreateInventoryDbs(Self, fetched))
  /\ UNCHANGED call

Next == Build

Spec == Init /\ [][Next]_vars

\* ------------------------------------------------------------------------
\* The inventory getters
\* ------------------------------------------------------------------------
DbNames ==
  {"controllers_db", "no_ptr_controllers_db", "iapvc_db", "contrlollerid_to_ap_db",
   "apname_to_controllerid_db", "controllerless_ap_db", "all_items_db"}

\* the list without its last record
ButLast(inv) == IF inv = <<>> THEN <<>> ELSE SubSeq(inv, 1, Len(inv) - 1)

\* what ap_list.xml can hold when a query runs: any list at the first fetch,
\* later the list that was fetched or that list with its last record gone
Fetch ==
  IF has_inventory THEN {inventory, ButLast(inventory)}
  ELSE UNION { QueryInventories(n) : n \in 0..MaxItems }

\* _controller_inventory and its six siblings: the dicts are built when the
\* instance has no such dict or the dict is empty
EnsureDb(s, db, fetched) ==
  IF s.raised THEN s
  ELSE IF ~s.has_dbs \/ DOMAIN s.dbs[db] = {}
  THEN RunCreateInventoryDbs(s, fetched)
  ELSE s

\* get_controller_inventory and its six siblings
GetInventory ==
  \E db \in DbNames : \E fetched \in Fetch :
    LET s == EnsureDb(Self, db, fetched)
    IN /\ Commit(s)
       /\ call' = Called("get_inventory", db, s, s.dbs[db])

\* ------------------------------------------------------------------------
\* The queries of elements
\* ------------------------------------------------------------------------
\* the values of a dict
Values(d) == { d[k] : k \in DOMAIN d }

\* get_controller_fqdn_list
ControllerFqdnList(cinv) == Values(cinv)

GetControllerFqdnList ==
  \E fetched \in Fetch :
    LET s == EnsureDb(Self, "controllers_db", fetched)
    IN /\ Commit(s)
       /\ call' = Called("get_controller_fqdn_list", None, s,
                         ControllerFqdnList(s.dbs.controllers_db))

\* the set comprehension without the test for a list
MultipleApsControlleridAnyCollection(ap_db, ap_names) ==
  { ap_db[ap] : ap \in { a \in Range(ap_names.names) : a \in DOMAIN ap_db } }

\* the set comprehension of get_multiple_aps_controllerid
MultipleApsControllerid(ap_db, ap_names) ==
  IF ap_names.names # <<>> /\ ap_names.is_list
  THEN { ap_db[ap] : ap \in { a \in Range(ap_names.names) : a \in DOMAIN ap_db } }
  ELSE {}

GetMultipleApsControllerid ==
  \E ap_names \in ApNamesArgs : \E fetched \in Fetch :
    LET s == EnsureDb(Self, "apname_to_controllerid_db", fetched)
    IN /\ Commit(s)
       /\ call' = Called("get_multiple_aps_controllerid", ap_names, s,
                         MultipleApsControllerid(s.dbs.apname_to_controllerid_db, ap_names))

\* contid_to_aplist_db.get(cid): the empty list stands for None
GetAplist(contid_to_aplist_db, cid) ==
  IF cid \in DOMAIN contid_to_aplist_db THEN contid_to_aplist_db[cid] ELSE <<>>

\* the loop body without the test of the AP list
ControllersApsStepAlways(cnames_to_aps_db, controller, aplist) ==
  Put(cnames_to_aps_db, controller, aplist)

\* the body of the loop of get_controllers_aps: an entry is written only
\* for a controller that has a non-empty AP list
ControllersApsStep(cnames_to_aps_db, controller, aplist) ==
  IF aplist # <<>> THEN Put(cnames_to_aps_db, controller, aplist)
  ELSE cnames_to_aps_db

\* the loop of get_controllers_aps over the items of the controller dict,
\* which lie in the order of the records, from the record at position i on
RECURSIVE ControllersAps(_, _, _, _, _)
ControllersAps(controller_inventory_db, contid_to_aplist_db, i, last, cnames_to_aps_db) ==
  IF i > last THEN cnames_to_aps_db
  ELSE LET cid == IdAt(i)
       IN ControllersAps(controller_inventory_db, contid_to_aplist_db, i + 1, last,
            IF cid \in DOMAIN controller_inventory_db
            THEN ControllersApsStep(cnames_to_aps_db, controller_inventory_db[cid],
                                    GetAplist(contid_to_aplist_db, cid))
            ELSE cnames_to_aps_db)

GetControllersAps ==
  \E fetched \in Fetch :
    LET s1 == EnsureDb(Self, "controllers_db", fetched)
        s2 == EnsureDb(s1, "contrlollerid_to_ap_db", fetched)
    IN /\ Commit(s2)
       /\ call' = Called("get_controllers_aps", None, s2,
                         ControllersAps(s1.dbs.controllers_db,
                                        s2.dbs.contrlollerid_to_ap_db,
                                        1, Len(s2.inventory), EmptyDict))

\* the value get_aps_controller returns: aps_controller, set to "" and never
\* assigned again
ApsController(ap_db, ap_name) == ""

GetApsController ==
  \E ap_name \in ApNameArgs : \E fetched \in Fetch :
    LET s == EnsureDb(Self, "apname_to_controllerid_db", fetched)
    IN /\ Commit(s)
       /\ call' = Called("get_aps_controller", ap_name, s,
                         ApsController(s.dbs.apname_to_controllerid_db, ap_name))

NextQ ==
  \/ GetInventory
  \/ GetControllerFqdnList
  \/ GetMultipleApsControllerid
  \/ GetControllersAps
  \/ GetApsController

InitQ == Init /\ resolver \in [Ips -> QueryAnswers]

\* the instance under the inventory getters and the queries of elements
SpecQ == InitQ /\ [][NextQ]_vars

\* ------------------------------------------------------------------------
\* The queries about a client
\* ------------------------------------------------------------------------
\* get_users_ap_info: users_ap_info is emptied, then filled from
\* client_detail.xml and ap_list.xml when the client is associated
UsersApInfo(s, users_mac) ==
  [s EXCEPT !.has_users_ap_info = TRUE,
            !.users_ap_info =
               IF ClientAssociated(users_mac)
               THEN Put(EmptyDict, "controller_id", ClientControllerId(users_mac))
               ELSE EmptyDict]

GetUsersApInfo ==
  \E users_mac \in Macs :
    LET s == UsersApInfo(Self, users_mac)
    IN /\ Commit(s)
       /\ call' = Called("get_users_ap_info", users_mac, s, s.users_ap_info)

UsersMacArgs == Macs \cup {""}
UsersControllerIdArgs == {"", "1"}

\* d[k], Absent where Python raises KeyError
At(d, k) == IF k \in DOMAIN d THEN d[k] ELSE Absent

\* self.get_all_items_inventory()[key]: the getter runs, then the key is
\* looked up
AllItemsAt(s, key, fetched) ==
  LET s1 == EnsureDb(s, "all_items_db", fetched)
  IN IF s1.raised THEN [state |-> s1, result |-> None]
     ELSE IF key = Absent \/ key \notin DOMAIN s1.dbs.all_items_db
     THEN [state |-> [s1 EXCEPT !.raised = TRUE], result |-> None]
     ELSE [state |-> s1, result |-> s1.dbs.all_items_db[key]]

\* get_users_controller_info
UsersControllerInfo(s, users_mac, users_controller_id, fetched) ==
  IF users_controller_id = ""
  THEN IF s.has_users_ap_info
       THEN AllItemsAt(s, At(s.users_ap_info, "controller_id"), fetched)
       ELSE IF users_mac # ""
       THEN LET s1 == UsersApInfo(s, users_mac)
            IN AllItemsAt(s1, At(s1.users_ap_info, "controller_id"), fetched)
       ELSE [state |-> s, result |-> None]
  ELSE AllItemsAt(s, users_controller_id, fetched)

GetUsersControllerInfo ==
  \E users_mac \in UsersMacArgs : \E users_controller_id \in UsersControllerIdArgs :
    \E fetched \in Fetch :
      LET r == UsersControllerInfo(Self, users_mac, users_controller_id, fetched)
      IN /\ Commit(r.state)
         /\ call' = Called("get_users_controller_info",
                           [users_mac |-> users_mac,
                            users_controller_id |-> users_controller_id],
                           r.state, r.result)

NextU ==
  \/ GetUsersApInfo
  \/ GetUsersControllerInfo

InitU == Init /\ resolver \in [Ips -> {"name"}]

\* the instance under the queries about a client
SpecU == InitU /\ [][NextU]_vars

\* ------------------------------------------------------------------------
\* OnlyOneInstance
\* ------------------------------------------------------------------------
Classes == {"AirWave"}

\* a string is a list of pieces; the arguments of AirWave(...)
AwUrls == { <<"aw.example.com">>, <<"https://", "aw.example.com">> }
AwUsernames == { <<"admin">>, <<"guest">> }
Proxies == { <<>>, <<"proxy.example.com">> }
Timeouts == {10, 30}
AirWaveArgs ==
  [aw_url : AwUrls, aw_username : AwUsernames, proxy : Proxies, timeout : Timeouts]

\* AirWave.__init__ on a new object, the serial-th object of the process
AirWaveInit(serial, args) ==
  LET aw_url == IF "https://" \notin Range(args.aw_url)
                THEN <<"https://">> \o args.aw_url ELSE args.aw_url
  IN [serial |-> serial,
      aw_url |-> aw_url,
      aw_username |-> args.aw_username,
      proxy |-> IF args.proxy # <<>>
                THEN Put(Put(EmptyDict, "http", args.proxy), "https", args.proxy)
                ELSE EmptyDict,
      timeout |-> args.timeout,
      login_url |-> aw_url \o <<"/LOGIN">>]

\* the number of objects of cls made so far
Constructed(insts, cls) == IF cls \in DOMAIN insts THEN insts[cls].serial ELSE 0

\* a __call__ that makes a new object on every call
OnlyOneInstanceCallAlways(insts, cls, args) ==
  Put(insts, cls, AirWaveInit(Constructed(insts, cls) + 1, args))

\* OnlyOneInstance.__call__: _instances after the call cls(args)
OnlyOneInstanceCall(insts, cls, args) ==
  IF cls \notin DOMAIN insts
  THEN Put(insts, cls, AirWaveInit(Constructed(insts, cls) + 1, args))
  ELSE insts

\* AirWave(...)
NewAirWave ==
  \E args \in AirWaveArgs :
    LET insts == OnlyOneInstanceCall(instances, "AirWave", args)
    IN /\ instances' = insts
       /\ call' = [op |-> "AirWave", arg |-> args, rebuilt |-> FALSE, raised |-> FALSE,
                   result |-> insts["AirWave"]]
       /\ UNCHANGED <<resolver, has_inventory, inventory, has_dbs, dbs,
                      has_users_ap_info, users_ap_info, access_token>>

NextI == NewAirWave

\* the process under constructor calls
SpecI == InitU /\ [][NextI]_vars

\* ------------------------------------------------------------------------
\* MMClient: values
\* ------------------------------------------------------------------------
\* Python values that are not plain strings carry their type: a str is the
\* list of its pieces, a list the list of its elements, a dict of one entry
\* its key and its value, an int its number
PyStr(pieces) == [t |-> "str", v |-> pieces]
PyList(elements) == [t |-> "list", v |-> elements]
PyDict(key, value) == [k |-> key, t |-> "dict", v |-> value]
PyInt(n) == [t |-> "int", v |-> n]
\* the marker of a keyword argument that is not passed
NotPassed == [t |-> "absent", v |-> <<>>]

\* json.dumps(x), as the pieces of the text it returns
RECURSIVE JsonPieces(_)
RECURSIVE JsonJoin(_, _)
\* the encodings of the elements from position i on, separated by ", "
JsonJoin(elements, i) ==
  IF i > Len(elements) THEN <<>>
  ELSE (IF i > 1 THEN <<", ">> ELSE <<>>) \o JsonPieces(elements[i]) \o JsonJoin(elements, i + 1)
JsonPieces(x) ==
  CASE x.t = "str" -> <<"\"">> \o x.v \o <<"\"">>
    [] x.t = "int" -> <<ToString(x.v)>>
    [] x.t = "list" -> <<"[">> \o JsonJoin(x.v, 1) \o <<"]">>
    [] x.t = "dict" -> <<"{">> \o JsonPieces(x.k) \o <<": ">> \o JsonPieces(x.v) \o <<"}">>

JsonDumps(x) == PyStr(JsonPieces(x))

\* str(x) of a str or an int
StrOf(x) == IF x.t = "int" THEN PyStr(<<ToString(x.v)>>) ELSE x

\* an optional keyword argument as a dict of no or one entry
OptS(key, value) == IF value = Absent THEN EmptyDict ELSE (key :> value)
OptV(key, value) == IF value.t = "absent" THEN EmptyDict ELSE (key :> value)

\* ------------------------------------------------------------------------
\* MMClient._params
\* ------------------------------------------------------------------------
\* a start of params that takes no config_path from the caller
ParamsBaseDefaultOnly(token, kwargs) ==
  ("config_path" :> "/md") @@ ("UIDARUBA" :> token)

\* params as _params starts it: the config path and the access token
ParamsBase(token, kwargs) ==
  ("config_path" :> (IF "config_path" \in DOMAIN kwargs
                     THEN kwargs["config_path"] ELSE "/md"))
    @@ ("UIDARUBA" :> token)

\* the filter that _params makes of profile_name
ProfileNameFilter(kwargs) ==
  PyList(<<PyDict(PyStr(<<kwargs["search"], ".profile-name">>),
                  PyDict(PyStr(<<IF "filter_oper" \in DOMAIN kwargs
                                 THEN kwargs["filter_oper"] ELSE "$eq">>),
                         PyList(<<PyStr(<<kwargs["profile_name"]>>)>>)))>>)

\* the two filter blocks in the other order: profile_name wins over filter
ParamsFilterProfileLast(params, kwargs) ==
  LET p1 == IF "filter" \in DOMAIN kwargs
            THEN IF kwargs["filter"].t = "str"
                 THEN Put(params, "filter", kwargs["filter"])
                 ELSE Put(params, "filter", JsonDumps(kwargs["filter"]))
            ELSE params
  IN IF "profile_name" \in DOMAIN kwargs
     THEN Put(p1, "filter", JsonDumps(ProfileNameFilter(kwargs)))
     ELSE p1

\* params after the two filter blocks
ParamsFilter(params, kwargs) ==
  LET p1 == IF "profile_name" \in DOMAIN kwargs
            THEN Put(params, "filter", JsonDumps(ProfileNameFilter(kwargs)))
            ELSE params
  IN IF "filter" \in DOMAIN kwargs
     THEN IF kwargs["filter"].t = "str"
          THEN Put(p1, "filter", kwargs["filter"])
          ELSE Put(p1, "filter", JsonDumps(kwargs["filter"]))
     ELSE p1

\* one of the blocks "if key in kwargs: params[key] = str(kwargs[key])"
ParamsPaging(params, kwargs, key) ==
  IF key \in DOMAIN kwargs THEN Put(params, key, StrOf(kwargs[key])) ELSE params

\* _params(**kwargs) on an instance with the token access_token: the
\* exception that leaves the call, and the dict it returns.  The block of
\* 'offset' reads the undefined name wargs.
Params(token, kwargs) ==
  LET p0 == ParamsBase(token, kwargs)
  IN IF "profile_name" \in DOMAIN kwargs /\ "search" \notin DOMAIN kwargs
     THEN [raised |-> "KeyError", params |-> EmptyDict]
     ELSE IF "offset" \in DOMAIN kwargs
     THEN [raised |-> "NameError", params |-> EmptyDict]
     ELSE [raised |-> "none",
           params |-> ParamsPaging(
                        ParamsPaging(
                          ParamsPaging(
                            ParamsPaging(ParamsFilter(p0, kwargs), kwargs, "limit"),
                            kwargs, "count"),
                          kwargs, "total"),
                        kwargs, "sort")]

\* ------------------------------------------------------------------------
\* MMClient._kwargs_modify
\* ------------------------------------------------------------------------
PyNone == [t |-> "none", v |-> <<>>]
PyEmptyDict == [t |-> "emptydict", v |-> <<>>]
\* the truth value of a str, a dict or None
PyTruthy(x) == x.t # "none" /\ x.v # <<>>

\* an endpoint is a str whose pieces are its segments and the "/" between
\* them; endpoint.split('/')[-1] is the piece after the last "/"
LastSegment(endpoint) ==
  IF endpoint = <<>> \/ endpoint[Len(endpoint)] = "/" THEN ""
  ELSE endpoint[Len(endpoint)]

\* a _kwargs_modify that POSTs whenever data is not None
KwargsModifyDataPassed(api_endpoint, data, kwargs) ==
  LET k1 == Put(kwargs, "endpoint", api_endpoint)
  IN IF data.t # "none"
     THEN Put(Put(k1, "method", "POST"), "jpayload", data)
     ELSE Put(Put(k1, "method", "GET"), "search", LastSegment(k1["endpoint"]))

\* _kwargs_modify(api_endpoint, data, **kwargs): the dict it returns
KwargsModify(api_endpoint, data, kwargs) ==
  LET k1 == Put(kwargs, "endpoint", api_endpoint)
  IN IF PyTruthy(data)
     THEN Put(Put(k1, "method", "POST"), "jpayload", data)
     ELSE Put(Put(k1, "method", "GET"), "search", LastSegment(k1["endpoint"]))

\* ------------------------------------------------------------------------
\* MMClient: inputs and calls
\* ------------------------------------------------------------------------
Endpoints ==
  { <<"configuration", "/", "object", "/", "ap_sys_prof">>,
    <<"/", "configuration", "/", "object", "/", "ssid_prof">>,
    <<"ap_group">>,
    <<"configuration", "/">> }
DataArgs == { PyNone, PyEmptyDict, PyStr(<<>>), PyStr(<<"some JSON data payload">>) }
ConfigPathArgs == { Absent, None, "/md/Test" }
ProfileNameArgs == { Absent, "test-01.ap_sys_prof" }
FilterOperArgs == { Absent, "$in" }
SearchArgs == { Absent, "ap_sys_prof" }
\* a filter as a list and two filters as text, one of them the text that
\* json.dumps makes of the list
ListFilter ==
  PyList(<<PyDict(PyStr(<<"ap_sys_prof", ".profile-name">>),
                  PyDict(PyStr(<<"$in">>), PyList(<<PyStr(<<"a_profile">>)>>)))>>)
FilterArgs ==
  { NotPassed, ListFilter, JsonDumps(ListFilter),
    PyStr(<<"[{\"ap_sys_prof.profile-name\":{\"$in\": [\"a_profile\"]}}]">>) }
PagingKeys == { "limit", "count", "total", "offset", "sort" }
PagingValues == { PyInt(10), PyStr(<<"-int_vlan.int_vlan_mtu.value">>) }
\* no paging parameter, or one of them
PagingArgs == {EmptyDict} \cup { (key :> value) : key \in PagingKeys, value \in PagingValues }

\* the keyword arguments of a call of _params or of a resource method
Kwargs(config_path, profile_name, filter_oper, filter, search, paging) ==
  OptS("config_path", config_path) @@ OptS("profile_name", profile_name)
    @@ OptS("filter_oper", filter_oper) @@ OptV("filter", filter)
    @@ OptS("search", search) @@ paging

\* the AirWave instance and the metaclass are left alone
AirWaveUnchanged ==
  UNCHANGED <<resolver, has_inventory, inventory, has_dbs, dbs,
              has_users_ap_info, users_ap_info, instances>>

\* the record of a call of MMClient that raised exc ("none": it returned)
MMCalled(op, arg, exc, result) ==
  [op |-> op, arg |-> arg, rebuilt |-> FALSE, raised |-> exc # "none",
   result |-> IF exc # "none" THEN exc ELSE result]

\* a call of _kwargs_modify
CallKwargsModify ==
  \E api_endpoint \in Endpoints : \E data \in DataArgs :
  \E search \in SearchArgs : \E jpayload \in {NotPassed, PyStr(<<"old payload">>)} :
    LET kwargs == OptS("search", search) @@ OptV("jpayload", jpayload)
    IN /\ call' = MMCalled("_kwargs_modify",
                           [api_endpoint |-> api_endpoint, data |-> data, kwargs |-> kwargs],
                           "none", KwargsModify(api_endpoint, data, kwargs))
       /\ UNCHANGED access_token
       /\ AirWaveUnchanged

\* the keyword arguments given to _params: every combination of the
\* arguments of the filter without paging, and every paging parameter with
\* and without a profile name
ParamsKwargs ==
  { Kwargs(config_path, profile_name, filter_oper, filter, search, EmptyDict) :
      config_path \in ConfigPathArgs, profile_name \in ProfileNameArgs,
      filter_oper \in FilterOperArgs, filter \in FilterArgs, search \in SearchArgs }
  \cup { Kwargs(config_path, profile_name, Absent, NotPassed, "ap_sys_prof", paging) :
           config_path \in {Absent, "/md/Test"}, profile_name \in ProfileNameArgs,
           paging \in PagingArgs }

\* a call of _params
CallParams ==
  \E kwargs \in ParamsKwargs :
    LET r == Params(access_token, kwargs)
    IN /\ call' = MMCalled("_params", kwargs, r.raised, r.params)
       /\ UNCHANGED access_token
       /\ AirWaveUnchanged

\* ------------------------------------------------------------------------
\* MMClient._api_call and the calls built on it
\* ------------------------------------------------------------------------
\* the _global_result of a JSON body; uid is Absent when it has no UIDARUBA
GlobalResult(status, status_str, uid) ==
  [t |-> "dict", status |-> status, status_str |-> status_str, uid |-> uid]
NoGlobalResult == [t |-> "absent"]

\* what the Mobility Master can answer to a request: an HTTP error status,
\* a body that is no JSON, and JSON bodies with and without _global_result
HttpError == [t |-> "http_error"]
TextBody == [t |-> "text"]
JsonBody(global_result) == [t |-> "json", global_result |-> global_result]
Responses ==
  { HttpError, TextBody, JsonBody(NoGlobalResult),
    JsonBody(GlobalResult(PyInt(0), "Success", "tok1")),
    JsonBody(GlobalResult(PyStr(<<"0">>), "Success", "tok2")),
    JsonBody(GlobalResult(PyInt(0), "Success", Absent)),
    JsonBody(GlobalResult(PyInt(1), "Unauthorized", Absent)),
    JsonBody(GlobalResult(PyStr(<<"1">>), "Unauthorized", "tok3")) }

Methods == {"GET", "get", "POST", "post"}
\* method.lower()
Lower(method) == IF method \in {"GET", "get"} THEN "get" ELSE "post"

\* the tuple a call returns
Pair(jresp, err) == [t |-> "tuple", jresp |-> jresp, err |-> err]

\* jresp["_global_result"]["status"] == 0 or ... == '0'
StatusIsZero(status) ==
  (status.t = "int" /\ status.v = 0) \/ (status.t = "str" /\ status.v = <<"0">>)

\* _api_call(method, url, **kwargs) when the server answers response: the
\* exception that leaves the call (the response hook raises for an HTTP
\* error status), and the tuple it returns
ApiCall(method, response) ==
  IF response.t = "http_error" THEN [raised |-> "HTTPError", ret |-> PyNone]
  ELSE IF response.t = "text" THEN [raised |-> "none", ret |-> Pair(PyNone, PyNone)]
  ELSE IF Lower(method) = "get" THEN [raised |-> "none", ret |-> Pair(response, PyNone)]
  ELSE IF response.global_result.t # "absent"
  THEN IF StatusIsZero(response.global_result.status)
       THEN [raised |-> "none", ret |-> Pair(response, PyNone)]
       ELSE [raised |-> "none", ret |-> Pair(response, response.global_result)]
  ELSE [raised |-> "none", ret |-> Pair(PyNone, PyNone)]

\* a _login that stores the UIDARUBA of every answer that carries one
LoginStoreAlways(token, response) ==
  LET r == ApiCall("post", response)
  IN IF r.raised # "none"
     THEN [raised |-> "SystemExit", token |-> token, ret |-> PyNone]
     ELSE IF r.ret.jresp.t = "none"
     THEN [raised |-> "TypeError", token |-> token, ret |-> PyNone]
     ELSE IF r.ret.jresp.global_result.uid = Absent
     THEN [raised |-> "KeyError", token |-> token, ret |-> PyNone]
     ELSE [raised |-> "none", token |-> r.ret.jresp.global_result.uid,
           ret |-> r.ret.jresp]

\* _login when the server answers response: the exception that leaves the
\* call (exit(0) on a request exception), the token after it and the value
\* it returns
Login(token, response) ==
  LET r == ApiCall("post", response)
  IN IF r.raised # "none"
     THEN [raised |-> "SystemExit", token |-> token, ret |-> PyNone]
     ELSE IF r.ret.err.t = "none"
     THEN IF r.ret.jresp.t = "none"
          THEN [raised |-> "TypeError", token |-> token, ret |-> PyNone]
          ELSE IF r.ret.jresp.global_result.uid = Absent
          THEN [raised |-> "KeyError", token |-> token, ret |-> PyNone]
          ELSE [raised |-> "none", token |-> r.ret.jresp.global_result.uid,
                ret |-> r.ret.jresp]
     ELSE [raised |-> "none", token |-> token, ret |-> r.ret.err]

\* resource(method, endpoint, jpayload, **kwargs) when the server answers
\* response: the exception, the params of the request and the tuple returned
Resource(token, method, endpoint, jpayload, kwargs, response) ==
  LET params == Params(token, Put(kwargs, "search", LastSegment(endpoint)))
      r == ApiCall(method, response)
  IN IF params.raised # "none"
     THEN [raised |-> params.raised, params |-> EmptyDict, ret |-> PyNone]
     ELSE [raised |-> r.raised, params |-> params.params, ret |-> r.ret]

\* what resource(**kwargs) does with the dict of _kwargs_modify: method,
\* endpoint and jpayload are its parameters, the rest its **kwargs
ResourceOf(token, kwargs, response) ==
  Resource(token, kwargs["method"], kwargs["endpoint"],
           IF "jpayload" \in DOMAIN kwargs THEN kwargs["jpayload"] ELSE PyNone,
           [k \in DOMAIN kwargs \ {"method", "endpoint", "jpayload"} |-> kwargs[k]],
           response)

\* ap_sys_profile(data, **kwargs)
ApSysProfile(token, data, kwargs, response) ==
  ResourceOf(token,
             KwargsModify(<<"configuration", "/", "object", "/", "ap_sys_prof">>, data, kwargs),
             response)

\* wlan_ssid_profile(data, **kwargs): the dict of _kwargs_modify is made
\* and the method ends without a return statement
WlanSsidProfile(token, data, kwargs, response) ==
  LET modified == KwargsModify(<<"configuration", "/", "object", "/", "ssid_prof">>, data, kwargs)
  IN [raised |-> "none", params |-> EmptyDict, ret |-> PyNone]

\* write_mem(config_path): _params gets config_path=config_path, which is
\* None when the caller passes none
WriteMem(token, config_path, response) ==
  LET params == Params(token, ("config_path" :> (IF config_path = Absent THEN None
                                                  ELSE config_path)))
      r == ApiCall("POST", response)
  IN IF params.raised # "none"
     THEN [raised |-> params.raised, params |-> EmptyDict, ret |-> PyNone]
     ELSE [raised |-> r.raised, params |-> params.params, ret |-> r.ret]

\* ------------------------------------------------------------------------
\* MMClient: the calls that reach the server
\* ------------------------------------------------------------------------
\* the keyword arguments given to a resource method
ResourceKwargs ==
  { Kwargs(config_path, profile_name, Absent, NotPassed, Absent, paging) :
      config_path \in {Absent, "/md/Test"}, profile_name \in ProfileNameArgs,
      paging \in {EmptyDict, ("offset" :> PyInt(20))} }

\* the answers to a request of a resource method
ResourceResponses ==
  { HttpError, TextBody, JsonBody(NoGlobalResult),
    JsonBody(GlobalResult(PyInt(0), "Success", Absent)),
    JsonBody(GlobalResult(PyInt(1), "Invalid data", Absent)) }
\* the data given to a resource method
ResourceData == { PyNone, PyEmptyDict, PyStr(<<"some JSON data payload">>) }

\* a call of _api_call
CallApiCall ==
  \E method \in Methods : \E response \in Responses :
    LET r == ApiCall(method, response)
    IN /\ call' = MMCalled("_api_call", [method |-> method, response |-> response],
                           r.raised, r.ret)
       /\ UNCHANGED access_token
       /\ AirWaveUnchanged

\* comms(), which ends in _login()
CallLogin ==
  \E response \in Responses :
    LET r == Login(access_token, response)
    IN /\ call' = MMCalled("_login", [response |-> response], r.raised, r.ret)
       /\ access_token' = r.token
       /\ AirWaveUnchanged

\* logout()
CallLogout ==
  \E response \in Responses :
    LET r == ApiCall("get", response)
    IN /\ call' = MMCalled("logout", [response |-> response], r.raised, r.ret)
       /\ UNCHANGED access_token
       /\ AirWaveUnchanged

\* write_mem(config_path)
CallWriteMem ==
  \E config_path \in {Absent, "/md/Test"} : \E response \in Responses :
    LET r == WriteMem(access_token, config_path, response)
    IN /\ call' = MMCalled("write_mem", [config_path |-> config_path, response |-> response],
                           r.raised, [params |-> r.params, ret |-> r.ret])
       /\ UNCHANGED access_token
       /\ AirWaveUnchanged

\* ap_sys_profile(data, **kwargs)
CallApSysProfile ==
  \E data \in ResourceData : \E kwargs \in ResourceKwargs : \E response \in ResourceResponses :
    LET r == ApSysProfile(access_token, data, kwargs, response)
    IN /\ call' = MMCalled("ap_sys_profile",
                           [data |-> data, kwargs |-> kwargs, response |-> response],
                           r.raised, [params |-> r.params, ret |-> r.ret])
       /\ UNCHANGED access_token
       /\ AirWaveUnchanged

\* wlan_ssid_profile(data, **kwargs)
CallWlanSsidProfile ==
  \E data \in ResourceData : \E kwargs \in ResourceKwargs : \E response \in ResourceResponses :
    LET r == WlanSsidProfile(access_token, data, kwargs, response)
    IN /\ call' = MMCalled("wlan_ssid_profile",
                           [data |-> data, kwargs |-> kwargs, response |-> response],
                           r.raised, [params |-> r.params, ret |-> r.ret])
       /\ UNCHANGED access_token
       /\ AirWaveUnchanged

NextM ==
  \/ CallKwargsModify
  \/ CallParams
  \/ CallApiCall
  \/ CallLogin
  \/ CallLogout
  \/ CallWriteMem
  \/ CallApSysProfile
  \/ CallWlanSsidProfile

\* one MMClient instance under its calls
SpecM == InitU /\ [][NextM]_vars

\* ------------------------------------------------------------------------
\* Properties
\* ------------------------------------------------------------------------
\* positions of the inventory whose record entered the all-items dict in the
\* last run
Reached == { i \in DOMAIN inventory :
               inventory[i].id # Absent /\ inventory[i].id \in DOMAIN dbs.all_items_db }

\* the record wrote to dict d in the last run
PlacedIn(i, d) == <<IdAt(i), d>> \in dbs.placed

\* record roles of the data model
IsControllerCategory(item) ==
  item.device_category # Absent /\ HasController(item.device_category)
IsPhysicalController(item) ==
  IsControllerCategory(item) /\ item.model # Absent /\ ~HasVirtualModel(item.model)
IsVirtualController(item) ==
  IsControllerCategory(item) /\ item.model # Absent /\ HasVirtualModel(item.model)
IsManagedAp(item) ==
  /\ item.device_category # Absent
  /\ HasThinAp(item.device_category)
  /\ item.controller_id # Absent

\* entries of all the lists of the controller-to-APs dict
ManagedEntries ==
  UNION { { <<c, j>> : j \in DOMAIN dbs.contrlollerid_to_ap_db[c] } :
          c \in DOMAIN dbs.contrlollerid_to_ap_db }

UnclassifiedCount == Cardinality({ p \in dbs.placed : p[2] = "unclassified" })

\* C1: after a run of _create_inventory_dbs the all-items dict has as many
\* entries as the controller dict, the no-PTR dict, the virtual-controller
\* dict, the entries of the controller-to-APs lists, the controllerless-AP
\* dict and the unclassified records together.
C1_CountsAddUp ==
  has_dbs =>
    Cardinality(DOMAIN dbs.all_items_db) =
        Cardinality(DOMAIN dbs.controllers_db)
      + Cardinality(DOMAIN dbs.no_ptr_controllers_db)
      + Cardinality(DOMAIN dbs.iapvc_db)
      + Cardinality(ManagedEntries)
      + Cardinality(DOMAIN dbs.controllerless_ap_db)
      + UnclassifiedCount

\* C2: every record that the run processed is in exactly one role bucket
\* (a dict of its role, or unclassified), never in none and never in two.
C2_ExactlyOneBucket ==
  has_dbs =>
    \A i \in Reached : Cardinality({ p \in dbs.placed : p[1] = IdAt(i) }) = 1

\* C3 as claimed: an AP name n is in the list of controller c if and only if
\* the name dict maps n to c.
C3_MutuallyConsistent ==
  has_dbs =>
    /\ \A c \in DOMAIN dbs.contrlollerid_to_ap_db :
         \A n \in Range(dbs.contrlollerid_to_ap_db[c]) :
           n \in DOMAIN dbs.apname_to_controllerid_db
             /\ dbs.apname_to_controllerid_db[n] = c
    /\ \A n \in DOMAIN dbs.apname_to_controllerid_db :
         /\ dbs.apname_to_controllerid_db[n] \in DOMAIN dbs.contrlollerid_to_ap_db
         /\ n \in Range(dbs.contrlollerid_to_ap_db[dbs.apname_to_controllerid_db[n]])

\* positions of the managed-AP records named n that the run indexed
ManagedNamed(n) ==
  { i \in Reached : IsManagedAp(inventory[i]) /\ Get(inventory[i].name) = n
                      /\ PlacedIn(i, "contrlollerid_to_ap_db") }

\* the largest element of a non-empty set of positions
Last(S) == CHOOSE i \in S : \A j \in S : j <= i

\* C3 as amended: the name dict maps n to c only if n is in the list of c;
\* every name of a list is a key of the name dict, mapped to the controller
\* of the last managed-AP record of that name.
C3_ConsistentUpToLastWriter ==
  has_dbs =>
    /\ \A n \in DOMAIN dbs.apname_to_controllerid_db :
         /\ dbs.apname_to_controllerid_db[n] \in DOMAIN dbs.contrlollerid_to_ap_db
         /\ n \in Range(dbs.contrlollerid_to_ap_db[dbs.apname_to_controllerid_db[n]])
    /\ \A c \in DOMAIN dbs.contrlollerid_to_ap_db :
         \A n \in Range(dbs.contrlollerid_to_ap_db[c]) :
           /\ n \in DOMAIN dbs.apname_to_controllerid_db
           /\ ManagedNamed(n) # {}
           /\ dbs.apname_to_controllerid_db[n] = inventory[Last(ManagedNamed(n))].controller_id

\* two managed-AP records share a name under different controllers
C3_SharedNameBuilt ==
  /\ has_dbs
  /\ \E n \in Names : \E c1, c2 \in DOMAIN dbs.contrlollerid_to_ap_db :
       /\ c1 # c2
       /\ n \in Range(dbs.contrlollerid_to_ap_db[c1])
       /\ n \in Range(dbs.contrlollerid_to_ap_db[c2])
       /\ dbs.apname_to_controllerid_db[n] \in {c1, c2}

\* the record lacks one of model, fqdn, lan_ip, name, device_category
MissesField(item) ==
  \E f \in {"model", "fqdn", "lan_ip", "name", "device_category"} : item[f] = Absent

\* C4: no record that lacks a field halts the run: every record with an id
\* that follows such a record is processed and is in the all-items dict.
C4_RunNeverHalted ==
  has_dbs =>
    \A i, j \in DOMAIN inventory :
      (i < j /\ i \in Reached /\ MissesField(inventory[i]) /\ inventory[j].id # Absent)
        => j \in Reached

\* C5: a reverse lookup that fails is treated as "no PTR": the controller is
\* written to the no-PTR dict and the run goes on.
C5_LookupFailureIsNoPtr ==
  has_dbs =>
    \A i \in Reached :
      ( /\ IdAt(i) \in dbs.lookups
        /\ inventory[i].name # Absent
        /\ resolver[inventory[i].lan_ip] \in {"herror", "gaierror"} )
        => /\ PlacedIn(i, "no_ptr_controllers_db")
           /\ inventory[i].lan_ip \in DOMAIN dbs.no_ptr_controllers_db
           /\ \A j \in DOMAIN inventory : (i < j /\ inventory[j].id # Absent) => j \in Reached

\* C6: a controller without usable fqdn is stored under its id with the
\* resolved name exactly when the lookup returns a name other than its lan
\* IP, and is stored in the no-PTR dict under its lan IP otherwise.
C6_OutcomeByLookup ==
  has_dbs =>
    \A i \in Reached :
      ( /\ IsPhysicalController(inventory[i])
        /\ ~Truthy(Get(inventory[i].fqdn))
        /\ inventory[i].lan_ip # Absent
        /\ inventory[i].name # Absent )
        => IF resolver[inventory[i].lan_ip] = "name"
           THEN /\ IdAt(i) \in DOMAIN dbs.controllers_db
                /\ dbs.controllers_db[IdAt(i)] = PtrName(inventory[i].lan_ip)
           ELSE /\ IdAt(i) \notin DOMAIN dbs.controllers_db
                /\ PlacedIn(i, "no_ptr_controllers_db")
                /\ inventory[i].lan_ip \in DOMAIN dbs.no_ptr_controllers_db

\* C7: the controller dict holds non-empty FQDNs only, and a controller
\* whose fqdn is present but empty takes the DNS fallback.
C7_OnlyNonEmptyFqdns ==
  has_dbs =>
    /\ \A id \in DOMAIN dbs.controllers_db : Truthy(dbs.controllers_db[id])
    /\ \A i \in Reached :
         (IsPhysicalController(inventory[i]) /\ inventory[i].fqdn = None)
           => IdAt(i) \in dbs.lookups

\* C8: the lookup is never called for a controller with a non-empty fqdn,
\* and the records it is called for are exactly the controllers of the
\* inventory without one.
C8_LookupsExactlyFqdnless ==
  has_dbs =>
    dbs.lookups =
      { IdAt(i) : i \in { j \in DOMAIN inventory :
                            /\ inventory[j].id # Absent
                            /\ IsPhysicalController(inventory[j])
                            /\ ~Truthy(Get(inventory[j].fqdn)) } }

\* C9: a record of controller category without model is indexed through the
\* controller path.
C9_NoModelIsController ==
  has_dbs =>
    \A i \in Reached :
      (IsControllerCategory(inventory[i]) /\ inventory[i].model = Absent)
        => \/ PlacedIn(i, "controllers_db")
           \/ PlacedIn(i, "no_ptr_controllers_db")
           \/ IdAt(i) \in dbs.lookups

\* C10: every virtual controller has an entry in the virtual-controller
\* dict; without fqdn the entry is empty and the run does not fail.
C10_VirtualAlwaysIndexed ==
  has_dbs =>
    \A i \in Reached :
      IsVirtualController(inventory[i])
        => /\ IdAt(i) \in DOMAIN dbs.iapvc_db
           /\ dbs.iapvc_db[IdAt(i)] = Get(inventory[i].fqdn)

\* the dicts of the roles: all the dicts but the all-items dict
RoleDbNames == DbNames \ {"all_items_db"}

\* the record took no branch of the if/elif chain
IsUnclassified(i) == PlacedIn(i, "unclassified")

\* C11: a record that matches no role is accounted for in what the run
\* exposes: it is never dropped without a trace outside the all-items dict.
C11_UnclassifiedAccounted ==
  has_dbs =>
    \A i \in Reached :
      IsUnclassified(i) => \E d \in RoleDbNames : PlacedIn(i, d)

\* the names of the managed-AP records of controller c, in input order
ManagedNamesOf(c) ==
  LET recs == SelectSeq(inventory, LAMBDA r : IsManagedAp(r) /\ r.controller_id = c)
  IN [j \in DOMAIN recs |-> Get(recs[j].name)]

\* C12: for every controller id the controller-to-APs dict holds the names
\* of the managed-AP records of that controller in input order, and the name
\* dict maps each of these names to that controller id.
C12_ListsInInputOrder ==
  has_dbs =>
    \A c \in ControllerIds :
      LET names == ManagedNamesOf(c)
      IN names # <<>> =>
           /\ c \in DOMAIN dbs.contrlollerid_to_ap_db
           /\ dbs.contrlollerid_to_ap_db[c] = names
           /\ \A n \in Range(names) :
                /\ n \in DOMAIN dbs.apname_to_controllerid_db
                /\ dbs.apname_to_controllerid_db[n] = c

\* C13: a record without an id is skipped: the run goes on with the records
\* after it, so every later record with an id is in the all-items dict.
C13_IdlessSkipped ==
  has_dbs =>
    \A i, j \in DOMAIN inventory :
      (i < j /\ inventory[i].id = Absent /\ inventory[j].id # Absent)
        => j \in Reached

\* ------------------------------------------------------------------------
\* Properties of the queries
\* ------------------------------------------------------------------------
\* the last call was op and returned
Returned(op) == call.op = op /\ ~call.raised

\* C14: a run of _create_inventory_dbs on an instance that holds built dicts,
\* with the same inventory and the same lookup answers, leaves dicts equal to
\* those it found: nothing of the earlier run is carried over.
C14_RebuildYieldsEqual ==
  [][(has_dbs /\ call'.rebuilt) => dbs' = dbs]_vars

\* a query ran _create_inventory_dbs again on an instance that held AP lists
C14_RebuiltWithLists ==
  /\ call.rebuilt
  /\ dbs.error = "none"
  /\ DOMAIN dbs.contrlollerid_to_ap_db # {}

\* C15: the dicts are built by the first query only: no query runs
\* _create_inventory_dbs on an instance that holds built dicts.
C15_BuiltOnce == ~call.rebuilt

\* the controllers of the controller dict with the FQDN f and an AP list
ControllersWithAps(f) ==
  { c \in DOMAIN dbs.controllers_db :
      /\ dbs.controllers_db[c] = f
      /\ GetAplist(dbs.contrlollerid_to_ap_db, c) # <<>> }

\* C16: get_controllers_aps returns an entry for f exactly when a controller
\* of the controller dict maps to f and has a non-empty AP list, and the value
\* is the AP list of such a controller; a controller without APs gives no
\* entry.
C16_EntriesOfControllersWithAps ==
  Returned("get_controllers_aps") =>
    /\ DOMAIN call.result = { f \in Values(dbs.controllers_db) : ControllersWithAps(f) # {} }
    /\ \A f \in DOMAIN call.result :
         call.result[f] \in { dbs.contrlollerid_to_ap_db[c] : c \in ControllersWithAps(f) }

\* get_controllers_aps returned an entry
C16_EntryReturned ==
  /\ Returned("get_controllers_aps")
  /\ DOMAIN call.result # {}

\* the controller ids of the known names among names
KnownControllerIds(names) ==
  { dbs.apname_to_controllerid_db[n] :
      n \in Range(names) \cap DOMAIN dbs.apname_to_controllerid_db }

\* C17: for any collection of AP names get_multiple_aps_controllerid returns
\* the set of the controller ids of the known names of the collection.
C17_AnyCollection ==
  Returned("get_multiple_aps_controllerid") =>
    call.result = KnownControllerIds(call.arg.names)

\* C17 as amended: for a list of AP names the call returns the set of the
\* controller ids of the known names, unknown names are ignored and raise
\* nothing; for a collection that is no list it returns the empty set.
C17_ListsOnly ==
  /\ Returned("get_multiple_aps_controllerid") =>
       call.result = IF call.arg.is_list THEN KnownControllerIds(call.arg.names) ELSE {}
  /\ (call.op = "get_multiple_aps_controllerid" /\ call.raised) => dbs.error # "none"

\* the call got a list with a known and an unknown name
C17_KnownAndUnknown ==
  /\ Returned("get_multiple_aps_controllerid")
  /\ call.arg.is_list
  /\ Range(call.arg.names) \cap DOMAIN dbs.apname_to_controllerid_db # {}
  /\ Range(call.arg.names) \ DOMAIN dbs.apname_to_controllerid_db # {}
  /\ call.result # {}

\* C18: get_controller_fqdn_list returns the set of the FQDNs of the
\* controller dict, every element is a non-empty FQDN and none is a value
\* of the no-PTR dict.
C18_RealFqdnsOnly ==
  Returned("get_controller_fqdn_list") =>
    /\ call.result = Values(dbs.controllers_db)
    /\ \A f \in call.result :
         Truthy(f) /\ f \notin Values(dbs.no_ptr_controllers_db)

\* C19: get_aps_controller returns, for a name of the name dict, the
\* controller id the dict holds for it.
C19_ReturnsControllerId ==
  (Returned("get_aps_controller") /\ call.arg \in DOMAIN dbs.apname_to_controllerid_db)
    => call.result = dbs.apname_to_controllerid_db[call.arg]

\* C20: get_users_controller_info(users_mac=m) returns the all-items record
\* of the controller of the AP of client m, whatever was called before.
C20_ControllerOfThatClient ==
  (/\ Returned("get_users_controller_info")
   /\ call.arg.users_controller_id = ""
   /\ call.arg.users_mac \in Macs
   /\ ClientAssociated(call.arg.users_mac)
   /\ ClientControllerId(call.arg.users_mac) \in DOMAIN dbs.all_items_db)
    => call.result = dbs.all_items_db[ClientControllerId(call.arg.users_mac)]

\* ------------------------------------------------------------------------
\* Properties of OnlyOneInstance
\* ------------------------------------------------------------------------
\* C21: over any sequence of AirWave(...) calls one object is made: every
\* call returns the first object of the process, the same as the call before.
C21_OneObject ==
  [][call'.op = "AirWave" =>
       /\ call'.result.serial = 1
       /\ call.op = "AirWave" => call'.result = call.result]_vars

\* a later call with other arguments got the object of the first call
C21_SecondCallOtherArgs ==
  /\ call.op = "AirWave"
  /\ call.result.aw_username # call.arg.aw_username
  /\ call.result.timeout # call.arg.timeout

\* ------------------------------------------------------------------------
\* Properties of MMClient
\* ------------------------------------------------------------------------
\* what _kwargs_modify is to return when it POSTs data (post) or GETs
KwargsModified(post) ==
  LET a == call.arg
      r == call.result
  IN /\ r["endpoint"] = a.api_endpoint
     /\ IF post
        THEN /\ r["method"] = "POST"
             /\ r["jpayload"] = a.data
             /\ "search" \in DOMAIN r <=> "search" \in DOMAIN a.kwargs
        ELSE /\ r["method"] = "GET"
             /\ r["search"] = LastSegment(a.api_endpoint)
             /\ "jpayload" \in DOMAIN r <=> "jpayload" \in DOMAIN a.kwargs

C23_TokenAndConfigPath ==
  Returned("_params") =>
    /\ call.result["UIDARUBA"] = access_token
    /\ call.result["config_path"] =
         (IF "config_path" \in DOMAIN call.arg THEN call.arg["config_path"] ELSE "/md")
    /\ ({"profile_name", "filter"} \cap DOMAIN call.arg = {})
         => "filter" \notin DOMAIN call.result

\* _params got a config_path and no filter on an instance that is logged in
C23_ConfigPathPassed ==
  /\ Returned("_params")
  /\ access_token # ""
  /\ "config_path" \in DOMAIN call.arg
  /\ call.arg["config_path"] = "/md/Test"
  /\ "filter" \notin DOMAIN call.result

\* the text [{"<search>.profile-name": {"<oper>": ["<profile_name>"]}}]
ProfileNameFilterText(search, oper, profile_name) ==
  PyStr(<<"[", "{", "\"", search, ".profile-name", "\"", ": ",
          "{", "\"", oper, "\"", ": ", "[", "\"", profile_name, "\"", "]", "}", "}", "]">>)

\* C24: a filter argument overrides profile_name and filter_oper, verbatim
\* when it is a str and JSON-encoded otherwise; with profile_name only the
\* filter is the JSON text of the profile-name filter with filter_oper,
\* "$eq" by default.
C24_FilterPrecedence ==
  Returned("_params") =>
    /\ "filter" \in DOMAIN call.arg =>
         call.result["filter"] =
           (IF call.arg["filter"].t = "str" THEN call.arg["filter"]
            ELSE JsonDumps(call.arg["filter"]))
    /\ ("filter" \notin DOMAIN call.arg /\ "profile_name" \in DOMAIN call.arg) =>
         call.result["filter"] =
           ProfileNameFilterText(call.arg["search"],
                                 IF "filter_oper" \in DOMAIN call.arg
                                 THEN call.arg["filter_oper"] ELSE "$eq",
                                 call.arg["profile_name"])

\* _params got a filter that is a list together with a profile_name
C24_FilterAndProfileName ==
  /\ Returned("_params")
  /\ "filter" \in DOMAIN call.arg
  /\ call.arg["filter"].t = "list"
  /\ "profile_name" \in DOMAIN call.arg
  /\ "filter_oper" \in DOMAIN call.arg

\* C25: write_mem without a config_path sends config_path = '/md'.
C25_WriteMemDefaultsToMd ==
  (Returned("write_mem") /\ call.arg.config_path = Absent)
    => call.result.params["config_path"] = "/md"

\* C26: wlan_ssid_profile returns what resource returns for the endpoint
\* configuration/object/ssid_prof.
C26_ReturnsWhatResourceReturns ==
  call.op = "wlan_ssid_profile" =>
    LET r == ResourceOf(access_token,
                        KwargsModify(<<"configuration", "/", "object", "/", "ssid_prof">>,
                                     call.arg.data, call.arg.kwargs),
                        call.arg.response)
    IN /\ call.raised = (r.raised # "none")
       /\ ~call.raised => call.result.ret = r.ret

\* the body is JSON whose _global_result has the status 0
WriteSucceeded(response) ==
  /\ response.t = "json"
  /\ response.global_result.t # "absent"
  /\ StatusIsZero(response.global_result.status)

\* C27: _api_call returns the error None for every GET, with the JSON of
\* the body; for another method the error is None only if the status of
\* _global_result is 0, so a write that did not succeed never has the error
\* None.
C27_NoSilentWriteFailure ==
  Returned("_api_call") =>
    IF Lower(call.arg.method) = "get"
    THEN /\ call.result.err.t = "none"
         /\ call.arg.response.t = "json" => call.result.jresp = call.arg.response
    ELSE call.result.err.t = "none" => WriteSucceeded(call.arg.response)

\* C28: _params takes every paging parameter: the dict it returns holds the
\* parameter as a str, and the call does not raise.
C28_PagingAccepted ==
  call.op = "_params" =>
    \A key \in PagingKeys \cap DOMAIN call.arg :
      /\ ~call.raised
      /\ call.result[key] = StrOf(call.arg[key])

\* the last call was a _login that got a body with no error and a UIDARUBA
LoggedIn ==
  /\ call.op = "_login"
  /\ WriteSucceeded(call.arg.response)
  /\ call.arg.response.global_result.uid # Absent

\* C29: the access token changes in a successful login only, and is then
\* the UIDARUBA of the response; a failed login, logout, write_mem and the
\* resource calls leave it as it is.
C29_TokenSetByLoginOnly ==
  [][/\ access_token' # access_token => LoggedIn'
     /\ (LoggedIn' /\ call' # call) => access_token' = call'.arg.response.global_result.uid]_vars

\* a login failed on an instance that holds the token of an earlier login
C29_FailedLoginAfterLogin ==
  /\ call.op = "_login"
  /\ call.arg.response.t = "json"
  /\ ~WriteSucceeded(call.arg.response)
  /\ access_token # ""

\* ------------------------------------------------------------------------
\* Properties of the raw inventory
\* ------------------------------------------------------------------------
\* C30: the raw inventory is fetched once: no query replaces the inventory
\* the instance holds, and the seven dicts a query builds or replaces are
\* those of one run over that inventory.
C30_OneSnapshot ==
  [][/\ has_inventory => (has_inventory' /\ inventory' = inventory)
     /\ (has_dbs' /\ (~has_dbs \/ dbs' # dbs)) =>
          dbs' = RunLoop(EmptyDbs, inventory', 1, resolver')]_vars

\* a query rebuilt the dicts of an inventory with records, while
\* ap_list.xml could have lost a record since the fetch
C30_RebuiltFromCachedInventory ==
  /\ call.op = "get_inventory"
  /\ call.rebuilt
  /\ has_inventory
  /\ Len(inventory) >= 1

====
